---- MODULE Spec2Model ----
(***************************************************************************)
(* RenderState (Source/Core/RenderState.cpp): a stack of cached render     *)
(* states (scissor, clip mask chain, transform) in front of a stateful     *)
(* render interface.  The render interface is modelled by the last value   *)
(* it was given for each piece of state, and every operation records the   *)
(* render interface calls it issued.                                       *)
(***************************************************************************)
EXTENDS Integers, Sequences, FiniteSets, TLC

\* ---- bounds of the model ----
MaxDepth == 3
ShallowDepth == 2
MaxOrigin == 1
MaxDim == 1
NumElems == 2
MaxChain == 2
NumPtrs == 2
MaxMat == 1

\* ---- values ----
nullptr == 0
Ptrs == 1..NumPtrs
MatVals == 0..MaxMat
Elems == 1..NumElems
Origins == {<<x, x>> : x \in 0..MaxOrigin}
Dimensions == {<<x, x>> : x \in 0..MaxDim}

\* Box::Area of an ElementClip and the ClipMask write modes.
BORDER == "BORDER"
ClipAreas == {BORDER}
Clip == "Clip"
ClipIntersect == "ClipIntersect"

ElementClip(e, a) == [element |-> e, clip_area |-> a]
ElementClips == {ElementClip(e, a) : e \in Elems, a \in ClipAreas}

RECURSIVE SeqsUpTo(_, _)
SeqsUpTo(S, n) ==
    IF n = 0 THEN {<<>>}
    ELSE LET shorter == SeqsUpTo(S, n - 1)
         IN  shorter \cup {Append(s, x) : s \in {t \in shorter : Len(t) = n - 1}, x \in S}

ElementClipLists == SeqsUpTo(ElementClips, MaxChain)

\* The matrices as the elements' transform states first computed them.
InitialMatrices == [p \in Ptrs |-> p % (MaxMat + 1)]

\* Small input sets, for the specifications that exercise every operation.
FewRects == {<<<<0, 0>>, <<0, 0>>>>, <<<<MaxOrigin, MaxOrigin>>, <<MaxDim, MaxDim>>>>}
FewClipLists == {<<>>, <<ElementClip(NumElems, BORDER)>>}
FewPtrs == {nullptr, NumPtrs}
AllRects == Origins \X Dimensions
AllPtrs == {nullptr} \cup Ptrs

\* A default-constructed State: scissor disabled, no clip mask, no transform.
DefaultMatrix == 0
DefaultState ==
    [scissor_origin |-> <<0, 0>>,
     scissor_dimensions |-> <<-1, -1>>,
     clip_stencil_elements |-> <<>>,
     transform |-> DefaultMatrix,
     transform_pointer |-> nullptr]

VARIABLES
    stack,            \* Vector<State>, the last element is the active State
    supports_stencil, \* return value of EnableClipMask seen by BeginRender
    mem,              \* the matrices the transform pointers refer to
    be_stencil,       \* render interface: whether it supports clip masks
    be_scissor,       \* render interface: last EnableScissorRegion argument
    be_region,        \* render interface: last SetScissorRegion arguments
    be_clip,          \* render interface: last EnableClipMask argument
    be_geoms,         \* render interface: clip geometry since the last EnableClipMask
    be_transform,     \* render interface: <<>> for null, <<m>> for matrix m
    calls,            \* render interface calls issued by the last operation
    op,               \* the last operation and its arguments
    error,            \* the last operation reported unbalanced push/pop
    begun,            \* BeginRender has been called
    tainted,          \* a matrix was modified while a State referred to it
    saved,            \* for each Push not yet popped: what was active before it
    active_pointer    \* the transform_pointer the last operation, a SetTransform, found

vars == <<stack, supports_stencil, mem, be_stencil, be_scissor, be_region, be_clip,
          be_geoms, be_transform, calls, op, error, begun, tainted, saved,
          active_pointer>>

Top == stack[Len(stack)]

B2I(b) == IF b THEN 1 ELSE 0

Call(name, args) == [name |-> name, args |-> args]

\* The machine the member functions work on: the active State, the render
\* interface and the calls made so far.
Machine ==
    [state |-> Top, scissor |-> be_scissor, region |-> be_region, clip |-> be_clip,
     geoms |-> be_geoms, transform |-> be_transform, calls |-> <<>>]

\* ---- RenderInterface ----
RI_EnableScissorRegion(m, enable) ==
    [m EXCEPT !.scissor = enable,
              !.calls = Append(@, Call("EnableScissorRegion", <<B2I(enable)>>))]

RI_SetScissorRegion(m, origin, dimensions) ==
    [m EXCEPT !.region = <<origin, dimensions>>,
              !.calls = Append(@, Call("SetScissorRegion", <<origin, dimensions>>))]

RI_EnableClipMask(m, enable) ==
    [m EXCEPT !.clip = enable,
              !.geoms = <<>>,
              !.calls = Append(@, Call("EnableClipMask", <<B2I(enable)>>))]

MatrixAt(p) == IF p = nullptr THEN <<>> ELSE <<mem[p]>>

RI_SetTransform(m, p) ==
    [m EXCEPT !.transform = MatrixAt(p),
              !.calls = Append(@, Call("SetTransform", <<p>>))]

\* Geometry::SetClipMask: the geometry of one clip element is written to the
\* clip mask under the transform in effect on the render interface.
RI_SetClipMaskGeometry(m, element, clip_area, clip_mask) ==
    [m EXCEPT !.geoms = Append(@, [element |-> element, clip_area |-> clip_area,
                                   clip_mask |-> clip_mask, transform |-> m.transform]),
              !.calls = Append(@, Call("Geometry", <<element, clip_area, clip_mask>>))]

\* ---- Element ----
\* element->GetTransformState()->GetTransform(): element 1 has no transform,
\* the others refer to the matrices in turn.
GetTransform(element) ==
    IF element = 1 THEN nullptr ELSE ((element - 2) % NumPtrs) + 1

\* ---- RenderState member functions ----
\* Variant: the cached dimensions are cleared but the render interface is not told.
DisableScissorRegionNoCall(m) ==
    LET scissor_enabled == m.state.scissor_dimensions[1] >= 0
    IN  IF scissor_enabled
        THEN [m EXCEPT !.state.scissor_dimensions = <<-1, -1>>]
        ELSE m

\* Variant: the render interface is told but the cached dimensions are kept.
DisableScissorRegionKeepDims(m) ==
    LET scissor_enabled == m.state.scissor_dimensions[1] >= 0
    IN  IF scissor_enabled
        THEN RI_EnableScissorRegion(m, FALSE)
        ELSE m

DisableScissorRegion(m) ==
    LET scissor_enabled == m.state.scissor_dimensions[1] >= 0
    IN  IF scissor_enabled
        THEN RI_EnableScissorRegion([m EXCEPT !.state.scissor_dimensions = <<-1, -1>>], FALSE)
        ELSE m

\* Variant: the rectangle is submitted without comparing it to the cached one.
EnableScissorRegionAlways(m, origin, dimensions) ==
    LET scissor_enabled == m.state.scissor_dimensions[1] >= 0
        m1 == IF ~scissor_enabled THEN RI_EnableScissorRegion(m, TRUE) ELSE m
    IN  RI_SetScissorRegion([m1 EXCEPT !.state.scissor_origin = origin,
                                       !.state.scissor_dimensions = dimensions],
                            origin, dimensions)

\* Variant: the rectangle is submitted before the scissor region is enabled.
EnableScissorRegionRegionFirst(m, origin, dimensions) ==
    LET scissor_enabled == m.state.scissor_dimensions[1] >= 0
        changed == \/ ~scissor_enabled
                   \/ m.state.scissor_origin # origin
                   \/ m.state.scissor_dimensions # dimensions
        m1 == IF changed
              THEN RI_SetScissorRegion([m EXCEPT !.state.scissor_origin = origin,
                                                 !.state.scissor_dimensions = dimensions],
                                       origin, dimensions)
              ELSE m
    IN  IF ~scissor_enabled THEN RI_EnableScissorRegion(m1, TRUE) ELSE m1

\* Variant: only the dimensions are compared to the cached rectangle.
EnableScissorRegionIgnoresOrigin(m, origin, dimensions) ==
    LET scissor_enabled == m.state.scissor_dimensions[1] >= 0
        m1 == IF ~scissor_enabled THEN RI_EnableScissorRegion(m, TRUE) ELSE m
    IN  IF ~scissor_enabled \/ m.state.scissor_dimensions # dimensions
        THEN RI_SetScissorRegion([m1 EXCEPT !.state.scissor_origin = origin,
                                            !.state.scissor_dimensions = dimensions],
                                 origin, dimensions)
        ELSE [m1 EXCEPT !.state.scissor_origin = origin]

EnableScissorRegion(m, origin, dimensions) ==
    LET scissor_enabled == m.state.scissor_dimensions[1] >= 0
        m1 == IF ~scissor_enabled THEN RI_EnableScissorRegion(m, TRUE) ELSE m
    IN  IF ~scissor_enabled \/ m.state.scissor_origin # origin
                            \/ m.state.scissor_dimensions # dimensions
        THEN RI_SetScissorRegion([m1 EXCEPT !.state.scissor_origin = origin,
                                            !.state.scissor_dimensions = dimensions],
                                 origin, dimensions)
        ELSE m1

\* Variant: a submitted matrix is not copied into the cached transform.
SetTransformNoCache(m, p_new_transform) ==
    LET p_active_transform == m.state.transform_pointer
    IN  IF p_active_transform # p_new_transform
        THEN LET m1 == IF \/ p_active_transform = nullptr
                          \/ p_new_transform = nullptr
                          \/ m.state.transform # mem[p_new_transform]
                       THEN RI_SetTransform(m, p_new_transform)
                       ELSE m
             IN  [m1 EXCEPT !.state.transform_pointer = p_new_transform]
        ELSE m

\* Variant: a null pointer is compared by value, as the identity matrix.
SetTransformNullIsIdentity(m, p_new_transform) ==
    LET p_active_transform == m.state.transform_pointer
        new_value == IF p_new_transform = nullptr THEN DefaultMatrix
                     ELSE mem[p_new_transform]
    IN  IF p_active_transform # p_new_transform
        THEN LET m1 == IF p_active_transform = nullptr \/ m.state.transform # new_value
                       THEN LET m0 == RI_SetTransform(m, p_new_transform)
                            IN  IF p_new_transform # nullptr
                                THEN [m0 EXCEPT !.state.transform = mem[p_new_transform]]
                                ELSE m0
                       ELSE m
             IN  [m1 EXCEPT !.state.transform_pointer = p_new_transform]
        ELSE m

\* Variant: no deep comparison, every change of pointer is submitted.
SetTransformPointerOnly(m, p_new_transform) ==
    LET p_active_transform == m.state.transform_pointer
    IN  IF p_active_transform # p_new_transform
        THEN LET m0 == RI_SetTransform(m, p_new_transform)
                 m1 == IF p_new_transform # nullptr
                       THEN [m0 EXCEPT !.state.transform = mem[p_new_transform]]
                       ELSE m0
             IN  [m1 EXCEPT !.state.transform_pointer = p_new_transform]
        ELSE m

SetTransform(m, p_new_transform) ==
    LET p_active_transform == m.state.transform_pointer
    IN  IF p_active_transform # p_new_transform
        THEN LET m1 == IF \/ p_active_transform = nullptr
                          \/ p_new_transform = nullptr
                          \/ m.state.transform # mem[p_new_transform]
                       THEN LET m0 == RI_SetTransform(m, p_new_transform)
                            IN  IF p_new_transform # nullptr
                                THEN [m0 EXCEPT !.state.transform = mem[p_new_transform]]
                                ELSE m0
                       ELSE m
             IN  [m1 EXCEPT !.state.transform_pointer = p_new_transform]
        ELSE m

ApplyTransform(m, element) ==
    SetTransform(m, IF element # nullptr THEN GetTransform(element) ELSE nullptr)

RECURSIVE ClipLoop(_, _, _)
ClipLoop(m, clip_elements, i) ==
    IF i > Len(clip_elements) THEN m
    ELSE LET element_clip == clip_elements[i]
             m1 == ApplyTransform(m, element_clip.element)
             clip_mask == IF i = 1 THEN Clip ELSE ClipIntersect
             m2 == RI_SetClipMaskGeometry(m1, element_clip.element,
                                          element_clip.clip_area, clip_mask)
         IN  ClipLoop(m2, clip_elements, i + 1)

\* Variant: the transform set before the loop is not applied again after it.
ApplyClipMaskNoRestore(m, clip_elements) ==
    LET clip_mask_enabled == clip_elements # <<>>
        m1 == RI_EnableClipMask(m, clip_mask_enabled)
    IN  IF clip_mask_enabled THEN ClipLoop(m1, clip_elements, 1) ELSE m1

\* Variant: an empty clip list returns before the render interface is told.
ApplyClipMaskSkipsDisable(m, clip_elements) ==
    LET clip_mask_enabled == clip_elements # <<>>
    IN  IF clip_mask_enabled
        THEN LET m1 == RI_EnableClipMask(m, clip_mask_enabled)
                 initial_transform == m1.state.transform_pointer
             IN  SetTransform(ClipLoop(m1, clip_elements, 1), initial_transform)
        ELSE m

ApplyClipMask(m, clip_elements) ==
    LET clip_mask_enabled == clip_elements # <<>>
        m1 == RI_EnableClipMask(m, clip_mask_enabled)
    IN  IF clip_mask_enabled
        THEN LET initial_transform == m1.state.transform_pointer
             IN  SetTransform(ClipLoop(m1, clip_elements, 1), initial_transform)
        ELSE m1

\* Variant: the clip mask is applied without comparing it to the cached list.
SetClipMaskAlways(m, in_clip_elements) ==
    ApplyClipMask([m EXCEPT !.state.clip_stencil_elements = in_clip_elements],
                  in_clip_elements)

SetClipMask(m, in_clip_elements) ==
    IF m.state.clip_stencil_elements # in_clip_elements
    THEN ApplyClipMask([m EXCEPT !.state.clip_stencil_elements = in_clip_elements],
                       in_clip_elements)
    ELSE m

\* Variant: the clip mask is reconciled before the scissor region.
SetClipMaskFirst(m, next) ==
    LET scissor_enable == next.scissor_dimensions[1] >= 0
        m1 == SetClipMask(m, next.clip_stencil_elements)
        m2 == IF scissor_enable
              THEN EnableScissorRegion(m1, next.scissor_origin, next.scissor_dimensions)
              ELSE DisableScissorRegion(m1)
    IN  SetTransform(m2, next.transform_pointer)

\* Variant: the transform is submitted without change detection.
SetAlwaysSubmitsTransform(m, next) ==
    LET scissor_enable == next.scissor_dimensions[1] >= 0
        m1 == IF scissor_enable
              THEN EnableScissorRegion(m, next.scissor_origin, next.scissor_dimensions)
              ELSE DisableScissorRegion(m)
        m2 == SetClipMask(m1, next.clip_stencil_elements)
        m3 == RI_SetTransform(m2, next.transform_pointer)
    IN  [m3 EXCEPT !.state.transform_pointer = next.transform_pointer,
                   !.state.transform = IF next.transform_pointer # nullptr
                                       THEN mem[next.transform_pointer] ELSE @]

\* Variant: the clip mask is left out of the reconciliation.
SetSkipsClipMask(m, next) ==
    LET scissor_enable == next.scissor_dimensions[1] >= 0
        m1 == IF scissor_enable
              THEN EnableScissorRegion(m, next.scissor_origin, next.scissor_dimensions)
              ELSE DisableScissorRegion(m)
    IN  SetTransform(m1, next.transform_pointer)

Set(m, next) ==
    LET scissor_enable == next.scissor_dimensions[1] >= 0
        m1 == IF scissor_enable
              THEN EnableScissorRegion(m, next.scissor_origin, next.scissor_dimensions)
              ELSE DisableScissorRegion(m)
        m2 == SetClipMask(m1, next.clip_stencil_elements)
    IN  SetTransform(m2, next.transform_pointer)

GetScissorState(state) ==
    LET scissor_enabled == state.scissor_dimensions[1] >= 0
    IN  IF ~scissor_enabled
        THEN [enabled |-> FALSE]
        ELSE [enabled |-> TRUE, origin |-> state.scissor_origin,
              dimensions |-> state.scissor_dimensions]

\* ---- actions ----
\* The variables after a member function left the machine as m, with the
\* stack newstack.
Commit(m, newstack, name, args) ==
    /\ stack' = newstack
    /\ be_scissor' = m.scissor
    /\ be_region' = m.region
    /\ be_clip' = m.clip
    /\ be_geoms' = m.geoms
    /\ be_transform' = m.transform
    /\ calls' = m.calls
    /\ op' = Call(name, args)
    /\ error' = FALSE
    /\ saved' = SubSeq(saved, 1, Len(newstack) - 1)
    /\ active_pointer' = IF name = "SetTransform" THEN Top.transform_pointer ELSE nullptr
    /\ UNCHANGED <<mem, be_stencil>>

\* Variant: the mutators write to stack.front().
ReplaceBottom(state) == [stack EXCEPT ![1] = state]

ReplaceTop(state) == [stack EXCEPT ![Len(stack)] = state]

\* Variant: the State below the top is removed instead of the top.
PopBackBelow(s) == Append(SubSeq(s, 1, Len(s) - 2), s[Len(s)])

\* stack.pop_back()
PopBack(s) == SubSeq(s, 1, Len(s) - 1)

\* What a caller observes before a Push: the depth, the active State and
\* what GetScissorState reports.
Snapshot ==
    [depth |-> Len(stack), state |-> Top, scissor |-> GetScissorState(Top),
     tainted |-> tainted]

\* After construction: one default State; the render interface is in whatever
\* state the previous frame or the application left it.
Init ==
    /\ stack = <<DefaultState>>
    /\ supports_stencil = FALSE
    /\ mem = InitialMatrices
    /\ be_stencil \in BOOLEAN
    /\ be_scissor \in BOOLEAN
    /\ be_region = <<<<0, 0>>, <<0, 0>>>>
    /\ be_clip \in BOOLEAN
    /\ be_geoms = <<>>
    /\ be_transform \in {<<>>} \cup {<<v>> : v \in MatVals}
    /\ calls = <<>>
    /\ op = Call("RenderState", <<>>)
    /\ error = FALSE
    /\ begun = FALSE
    /\ tainted = FALSE
    /\ saved = <<>>
    /\ active_pointer = nullptr

\* The same, with a render interface that supports clip masks.
InitStencil == Init /\ be_stencil

\* Variant: the render interface is brought to the default State through Set,
\* which submits only what differs from the cached State.
DoBeginRenderViaSet ==
    /\ Len(stack) = 1
    /\ LET m == Set(Machine, DefaultState)
       IN  Commit(m, ReplaceTop(DefaultState), "BeginRender", <<>>)
    /\ supports_stencil' = be_stencil
    /\ begun' = TRUE
    /\ tainted' = FALSE

DoBeginRender ==
    /\ Len(stack) = 1
    /\ LET m1 == RI_EnableScissorRegion(Machine, FALSE)
           m2 == RI_EnableClipMask(m1, FALSE)
           m3 == RI_SetTransform(m2, nullptr)
       IN  Commit(m3, ReplaceTop(DefaultState), "BeginRender", <<>>)
    /\ supports_stencil' = be_stencil
    /\ begun' = TRUE
    /\ tainted' = FALSE

DoReset ==
    LET m == Set(Machine, DefaultState)
    IN  /\ Commit(m, ReplaceTop(m.state), "Reset", <<>>)
        /\ UNCHANGED <<supports_stencil, begun, tainted>>

DoDisableScissorRegion ==
    LET m == DisableScissorRegion(Machine)
    IN  /\ Commit(m, ReplaceTop(m.state), "DisableScissorRegion", <<>>)
        /\ UNCHANGED <<supports_stencil, begun, tainted>>

DoEnableScissorRegion(origin, dimensions) ==
    /\ dimensions[1] >= 0 /\ dimensions[2] >= 0
    /\ LET m == EnableScissorRegion(Machine, origin, dimensions)
       IN  Commit(m, ReplaceTop(m.state), "EnableScissorRegion", <<origin, dimensions>>)
    /\ UNCHANGED <<supports_stencil, begun, tainted>>

DoSetClipMask(in_clip_elements) ==
    /\ LET m == SetClipMask(Machine, in_clip_elements)
       IN  Commit(m, ReplaceTop(m.state), "SetClipMask", in_clip_elements)
    /\ UNCHANGED <<supports_stencil, begun, tainted>>

DoSetTransform(p) ==
    /\ LET m == SetTransform(Machine, p)
       IN  Commit(m, ReplaceTop(m.state), "SetTransform", <<p>>)
    /\ UNCHANGED <<supports_stencil, begun, tainted>>

DoApplyTransform(element) ==
    /\ LET m == ApplyTransform(Machine, element)
       IN  Commit(m, ReplaceTop(m.state), "ApplyTransform", <<element>>)
    /\ UNCHANGED <<supports_stencil, begun, tainted>>

DoGetScissorState ==
    /\ Commit(Machine, stack, "GetScissorState", <<>>)
    /\ UNCHANGED <<supports_stencil, begun, tainted>>

\* Variant: a default State is pushed instead of a copy of the top.
DoPushDefault(depth) ==
    /\ Len(stack) < depth
    /\ stack' = Append(stack, DefaultState)
    /\ saved' = Append(saved, Snapshot)
    /\ active_pointer' = nullptr
    /\ calls' = <<>>
    /\ op' = Call("Push", <<>>)
    /\ error' = FALSE
    /\ UNCHANGED <<supports_stencil, mem, be_stencil, be_scissor, be_region, be_clip,
                   be_geoms, be_transform, begun, tainted>>

DoPush(depth) ==
    /\ Len(stack) < depth
    /\ stack' = Append(stack, Top)
    /\ saved' = Append(saved, Snapshot)
    /\ active_pointer' = nullptr
    /\ calls' = <<>>
    /\ op' = Call("Push", <<>>)
    /\ error' = FALSE
    /\ UNCHANGED <<supports_stencil, mem, be_stencil, be_scissor, be_region, be_clip,
                   be_geoms, be_transform, begun, tainted>>

\* Variant: the last State is removed without checking the depth.
DoPopUnchecked ==
    IF Len(stack) >= 2
    THEN LET next == stack[Len(stack) - 1]
             m == Set(Machine, next)
         IN  /\ Commit(m, PopBack(ReplaceTop(m.state)), "Pop", <<>>)
             /\ UNCHANGED <<supports_stencil, begun, tainted>>
    ELSE /\ stack' = PopBack(stack)
         /\ error' = FALSE
         /\ op' = Call("Pop", <<>>)
         /\ calls' = <<>>
         /\ active_pointer' = nullptr
         /\ UNCHANGED <<supports_stencil, mem, be_stencil, be_scissor, be_region,
                        be_clip, be_geoms, be_transform, begun, tainted, saved>>

DoPop ==
    IF Len(stack) >= 2
    THEN LET next == stack[Len(stack) - 1]
             m == Set(Machine, next)
         IN  /\ Commit(m, PopBack(ReplaceTop(m.state)), "Pop", <<>>)
             /\ UNCHANGED <<supports_stencil, begun, tainted>>
    ELSE /\ error' = TRUE
         /\ op' = Call("Pop", <<>>)
         /\ calls' = <<>>
         /\ active_pointer' = nullptr
         /\ UNCHANGED <<stack, supports_stencil, mem, be_stencil, be_scissor, be_region,
                        be_clip, be_geoms, be_transform, begun, tainted, saved>>

\* The owner of a matrix (an element's TransformState) recomputes it.
ModifyMatrix(p, v) ==
    /\ v # mem[p]
    /\ mem' = [mem EXCEPT ![p] = v]
    /\ tainted' = (tainted \/ \E i \in 1..Len(stack) : stack[i].transform_pointer = p)
    /\ op' = Call("ModifyMatrix", <<p, v>>)
    /\ active_pointer' = nullptr
    /\ calls' = <<>>
    /\ error' = FALSE
    /\ UNCHANGED <<stack, supports_stencil, be_stencil, be_scissor, be_region,
                   be_clip, be_geoms, be_transform, begun, saved>>

\* ---- specifications ----
\* Every operation, in any order, on small inputs.
Next ==
    \/ DoBeginRender
    \/ DoReset
    \/ DoDisableScissorRegion
    \/ \E r \in FewRects : DoEnableScissorRegion(r[1], r[2])
    \/ \E c \in FewClipLists : DoSetClipMask(c)
    \/ \E p \in FewPtrs : DoSetTransform(p)
    \/ \E e \in {nullptr, NumElems} : DoApplyTransform(e)
    \/ DoGetScissorState
    \/ DoPush(ShallowDepth)
    \/ DoPop

Spec == Init /\ [][Next]_vars

\* A frame: BeginRender first, then the scissor operations on every
\* rectangle, with the other operations on small inputs.
NextScissor ==
    \/ DoBeginRender
    \/ /\ begun
       /\ \/ DoReset
          \/ DoDisableScissorRegion
          \/ \E r \in AllRects : DoEnableScissorRegion(r[1], r[2])
          \/ \E c \in FewClipLists : DoSetClipMask(c)
          \/ \E p \in FewPtrs : DoSetTransform(p)
          \/ DoGetScissorState
          \/ DoPush(ShallowDepth)
          \/ DoPop

SpecScissor == InitStencil /\ [][NextScissor]_vars

\* A frame: BeginRender first, then the clip mask and transform operations on
\* every clip list and every matrix, while the matrices change.
NextClip ==
    \/ DoBeginRender
    \/ /\ begun
       /\ \/ DoReset
          \/ \E c \in ElementClipLists : DoSetClipMask(c)
          \/ \E p \in AllPtrs : DoSetTransform(p)
          \/ \E e \in {nullptr} \cup Elems : DoApplyTransform(e)
          \/ DoPush(ShallowDepth)
          \/ DoPop
          \/ \E p \in Ptrs, v \in MatVals : ModifyMatrix(p, v)

SpecClip == InitStencil /\ [][NextClip]_vars

\* A frame: BeginRender first, then nested Push and Pop with the mutators on
\* small inputs in between.
NextStack ==
    \/ DoBeginRender
    \/ /\ begun
       /\ \/ DoReset
          \/ DoDisableScissorRegion
          \/ \E r \in FewRects : DoEnableScissorRegion(r[1], r[2])
          \/ \E c \in FewClipLists : DoSetClipMask(c)
          \/ \E p \in FewPtrs : DoSetTransform(p)
          \/ DoPush(MaxDepth)
          \/ DoPop

SpecStack == InitStencil /\ [][NextStack]_vars

\* A frame: BeginRender first, then the scissor, clip mask and transform
\* mutators on every clip list and pointer, with Push, Pop and Reset.
NextSet ==
    \/ DoBeginRender
    \/ /\ begun
       /\ \/ DoReset
          \/ DoDisableScissorRegion
          \/ \E r \in FewRects : DoEnableScissorRegion(r[1], r[2])
          \/ \E c \in ElementClipLists : DoSetClipMask(c)
          \/ \E p \in AllPtrs : DoSetTransform(p)
          \/ DoPush(ShallowDepth)
          \/ DoPop

SpecSet == InitStencil /\ [][NextSet]_vars

\* ---- properties ----
ScissorEnabled(state) == state.scissor_dimensions[1] >= 0

BackendUnchanged == UNCHANGED <<be_scissor, be_region, be_clip, be_geoms, be_transform>>

CallsNamed(cs, name) == SelectSeq(cs, LAMBDA c : c.name = name)

\* The geometry submissions SetClipMask is to make for a clip list.
ExpectedGeometry(clip_elements) ==
    [i \in 1..Len(clip_elements) |->
        Call("Geometry", <<clip_elements[i].element, clip_elements[i].clip_area,
                           IF i = 1 THEN Clip ELSE ClipIntersect>>)]

\* C1: a Pop that matches a Push leaves the stack at the depth it had before
\* that Push, the active State equal in every field to the State active before
\* that Push, and GetScissorState reporting what it reported then, whatever
\* was done to the top State (nested Push/Pop pairs included) in between.
C1_BalancedPushPop ==
    [][(op'.name = "Pop" /\ ~error') =>
          LET before == saved[Len(saved)]
          IN  /\ Len(stack') = before.depth
              /\ Top' = before.state
              /\ GetScissorState(Top') = before.scissor]_vars

\* A Pop from depth 3 to depth 2 that had to reconcile the render interface.
C1_Witness ==
    /\ op.name = "Pop" /\ ~error
    /\ Len(stack) = 2
    /\ CallsNamed(calls, "SetScissorRegion") # <<>>

\* C2: the stack depth is at least 1 in every state; Pop at depth 1 reports the
\* error, removes nothing, leaves the State and the render interface alone and
\* issues no call; Pop at depth 2 or more removes exactly the top State.
C2_PopNeverUnderflows ==
    /\ Len(stack) >= 1
    /\ [][/\ Len(stack') >= 1
          /\ op'.name = "Pop" =>
                IF Len(stack) = 1
                THEN error' /\ stack' = stack /\ calls' = <<>> /\ BackendUnchanged
                ELSE /\ ~error'
                     /\ Len(stack') = Len(stack) - 1
                     /\ \A i \in 1..Len(stack') : stack'[i] = stack[i]]_vars

\* Pop was called at depth 1.
C2_Witness == op.name = "Pop" /\ error /\ Len(stack) = 1 /\ begun /\ ScissorEnabled(Top)

\* C3: after BeginRender, the active State's scissor_dimensions.x is >= 0
\* exactly when the last EnableScissorRegion call of the render interface had
\* the argument true.
C3_ScissorFlagMatchesBackend ==
    begun => (ScissorEnabled(Top) <=> be_scissor)

\* A Pop that enabled the scissor region again.
C3_Witness ==
    /\ begun /\ op.name = "Pop" /\ ~error
    /\ \E i \in 1..Len(calls) : calls[i] = Call("EnableScissorRegion", <<1>>)
    /\ ScissorEnabled(Top)

\* C4: after BeginRender, as long as no matrix was modified while a State
\* referred to it, the matrix the render interface last received is the active
\* State's cached transform when its transform_pointer is non-null, and null
\* when it is null.
C4_TransformMatchesBackend ==
    (begun /\ ~tainted) =>
        be_transform = (IF Top.transform_pointer = nullptr THEN <<>> ELSE <<Top.transform>>)

\* A Pop that returned to a State with a transform, by submitting it.
C4_Witness ==
    /\ begun /\ ~tainted /\ op.name = "Pop" /\ ~error
    /\ Top.transform_pointer # nullptr
    /\ CallsNamed(calls, "SetTransform") # <<>>

\* C5: SetClipMask with a non-empty list that differs from the cached one
\* submits one geometry per element, in order, the first as Clip and the others
\* as ClipIntersect; SetClipMask right after a SetClipMask with an equal list
\* issues no render interface call.
C5_ClipMaskGeometry ==
    [][op'.name = "SetClipMask" =>
          /\ (op'.args # <<>> /\ op'.args # Top.clip_stencil_elements) =>
                CallsNamed(calls', "Geometry") = ExpectedGeometry(op'.args)
          /\ (op.name = "SetClipMask" /\ op.args = op'.args) => calls' = <<>>]_vars

\* SetClipMask submitted the geometry of a list of two elements.
C5_Witness ==
    /\ op.name = "SetClipMask" /\ Len(op.args) >= 2
    /\ Len(CallsNamed(calls, "Geometry")) >= 2

\* C6: SetClipMask leaves the active State's transform_pointer as it was, and
\* the render interface, if it had the matrix of that pointer before, has it
\* again afterwards; unless a matrix was modified while a State referred to it,
\* every geometry of the clip mask was submitted under its element's transform.
C6_ClipMaskRestoresTransform ==
    [][op'.name = "SetClipMask" =>
          /\ Top'.transform_pointer = Top.transform_pointer
          /\ be_transform = MatrixAt(Top.transform_pointer) =>
                be_transform' = MatrixAt(Top.transform_pointer)
          /\ (~tainted /\ calls' # <<>>) =>
                \A i \in 1..Len(be_geoms') :
                    be_geoms'[i].transform = MatrixAt(GetTransform(be_geoms'[i].element))]_vars

\* SetClipMask applied an element's transform that is not the active one, and
\* the active one is a matrix.
C6_Witness ==
    /\ op.name = "SetClipMask" /\ begun /\ ~tainted
    /\ Top.transform_pointer # nullptr
    /\ \E i \in 1..Len(calls) :
          /\ calls[i].name = "SetTransform"
          /\ calls[i].args # <<Top.transform_pointer>>
          /\ calls[i].args # <<nullptr>>

\* C7: EnableScissorRegion on a disabled scissor issues EnableScissorRegion(true)
\* and SetScissorRegion, once each; the same call again issues nothing and
\* GetScissorState reports the region as enabled with that origin and those
\* dimensions; on an enabled scissor with another origin or other dimensions it
\* issues SetScissorRegion only.
C7_EnableScissorRegionCalls ==
    [][op'.name = "EnableScissorRegion" =>
          LET origin == op'.args[1]
              dimensions == op'.args[2]
              region == Call("SetScissorRegion", <<origin, dimensions>>)
          IN  /\ ~ScissorEnabled(Top) =>
                    calls' = <<Call("EnableScissorRegion", <<1>>), region>>
              /\ (op.name = "EnableScissorRegion" /\ op.args = op'.args) =>
                    /\ calls' = <<>>
                    /\ GetScissorState(Top') =
                          [enabled |-> TRUE, origin |-> origin, dimensions |-> dimensions]
              /\ (/\ ScissorEnabled(Top)
                  /\ \/ Top.scissor_origin # origin
                     \/ Top.scissor_dimensions # dimensions) =>
                    calls' = <<region>>]_vars

\* The second of two equal EnableScissorRegion calls.
C7_Witness ==
    /\ op.name = "EnableScissorRegion" /\ calls = <<>>
    /\ ScissorEnabled(Top) /\ be_scissor

\* C8: SetTransform(null) on a non-null transform_pointer issues
\* SetTransform(null) and sets the pointer to null, whatever the cached matrix
\* is; SetTransform of a non-null pointer on a null transform_pointer issues
\* SetTransform of that pointer.
C8_NullTransformDistinct ==
    [][op'.name = "SetTransform" =>
          LET p == op'.args[1]
          IN  /\ (Top.transform_pointer # nullptr /\ p = nullptr) =>
                    /\ calls' = <<Call("SetTransform", <<nullptr>>)>>
                    /\ Top'.transform_pointer = nullptr
                    /\ be_transform' = <<>>
              /\ (Top.transform_pointer = nullptr /\ p # nullptr) =>
                    /\ calls' = <<Call("SetTransform", <<p>>)>>
                    /\ be_transform' = <<mem[p]>>]_vars

\* SetTransform(null) was called while the cached matrix had the value of the
\* identity.
C8_Witness ==
    /\ op.name = "SetTransform" /\ op.args = <<nullptr>>
    /\ calls # <<>>
    /\ Top.transform = DefaultMatrix

\* C9: DisableScissorRegion on an enabled scissor (so right after
\* EnableScissorRegion) issues EnableScissorRegion(false), and GetScissorState
\* then reports disabled; on a disabled scissor it issues nothing and changes
\* no State.
C9_DisableScissorRegion ==
    [][op'.name = "DisableScissorRegion" =>
          /\ op.name = "EnableScissorRegion" => ScissorEnabled(Top)
          /\ IF ScissorEnabled(Top)
             THEN /\ calls' = <<Call("EnableScissorRegion", <<0>>)>>
                  /\ ~GetScissorState(Top').enabled
                  /\ ~be_scissor'
             ELSE calls' = <<>> /\ stack' = stack /\ BackendUnchanged]_vars

\* DisableScissorRegion right after EnableScissorRegion.
C9_Witness ==
    /\ op.name = "DisableScissorRegion"
    /\ calls = <<Call("EnableScissorRegion", <<0>>)>>
    /\ be_region[1] = <<MaxOrigin, MaxOrigin>>

\* C10: BeginRender issues EnableScissorRegion(false), EnableClipMask(false)
\* and SetTransform(null), in this order, whatever the cached State is, keeps
\* what EnableClipMask returned as supports_stencil, and leaves a stack of one
\* State with the scissor disabled, no clip list and a null transform_pointer.
C10_BeginRender ==
    [][op'.name = "BeginRender" =>
          /\ Len(stack) = 1
          /\ calls' = <<Call("EnableScissorRegion", <<0>>),
                        Call("EnableClipMask", <<0>>),
                        Call("SetTransform", <<nullptr>>)>>
          /\ supports_stencil' = be_stencil
          /\ ~be_scissor' /\ ~be_clip' /\ be_transform' = <<>>
          /\ Len(stack') = 1
          /\ ~GetScissorState(Top').enabled
          /\ Top'.clip_stencil_elements = <<>>
          /\ Top'.transform_pointer = nullptr]_vars

\* BeginRender of a later frame, on a render interface that supports clip masks.
C10_Witness ==
    /\ op.name = "BeginRender" /\ supports_stencil
    /\ be_region # <<<<0, 0>>, <<0, 0>>>>

\* C11 (as claimed): after Reset the active State equals a default-constructed
\* State in every field.
C11_ResetEqualsDefault ==
    op.name = "Reset" => Top = DefaultState

\* C11 (amended): after Reset the active State has the scissor disabled, no
\* clip list and a null transform_pointer, as a default State has, while
\* scissor_origin and transform keep the values they had; the stack depth and
\* supports_stencil are unchanged.
C11_ResetReconciles ==
    [][op'.name = "Reset" =>
          /\ Top'.scissor_dimensions = <<-1, -1>>
          /\ ~GetScissorState(Top').enabled
          /\ Top'.clip_stencil_elements = <<>>
          /\ Top'.transform_pointer = nullptr
          /\ Top'.scissor_origin = Top.scissor_origin
          /\ Top'.transform = Top.transform
          /\ Len(stack') = Len(stack)
          /\ \A i \in 1..(Len(stack) - 1) : stack'[i] = stack[i]
          /\ supports_stencil' = supports_stencil]_vars

\* Reset of a State that had a scissor region, a clip list and a transform.
C11_Witness ==
    /\ op.name = "Reset" /\ begun
    /\ Top.scissor_origin # DefaultState.scissor_origin
    /\ \E i \in 1..Len(calls) : calls[i] = Call("EnableScissorRegion", <<0>>)
    /\ \E i \in 1..Len(calls) : calls[i] = Call("EnableClipMask", <<0>>)
    /\ \E i \in 1..Len(calls) : calls[i] = Call("SetTransform", <<nullptr>>)

\* C12: after a Pop whose Push was made while no State referred to a modified
\* matrix, the matrix in effect on the render interface is the transform
\* cached in the restored State when its transform_pointer is non-null, also
\* when a matrix was modified between the Push and the Pop.
C12_RestoredTransformAfterPop ==
    [][(/\ op'.name = "Pop" /\ ~error'
        /\ begun
        /\ ~saved[Len(saved)].tainted
        /\ Top'.transform_pointer # nullptr) =>
          be_transform' = <<Top'.transform>>]_vars

IsScissorCall(c) == c.name \in {"EnableScissorRegion", "SetScissorRegion"}

\* The position of the last call with this name, 0 if there is none.
LastCall(cs, name) ==
    IF \E i \in 1..Len(cs) : cs[i].name = name
    THEN CHOOSE i \in 1..Len(cs) :
            cs[i].name = name /\ \A j \in (i + 1)..Len(cs) : cs[j].name # name
    ELSE 0

C14_PushCopiesTop ==
    [][op'.name = "Push" =>
          /\ calls' = <<>>
          /\ BackendUnchanged
          /\ Len(stack') = Len(stack) + 1
          /\ \A i \in 1..Len(stack) : stack'[i] = stack[i]
          /\ Top' = Top]_vars

\* A second Push, of a State that is not the default one.
C14_Witness ==
    /\ op.name = "Push" /\ Len(stack) = 3
    /\ ScissorEnabled(Top)
    /\ Top.clip_stencil_elements # <<>>
    /\ Top.transform_pointer # nullptr

\* C15: SetTransform with the cached pointer issues nothing and changes
\* nothing; with another pointer, both non-null, whose matrix equals the cached
\* transform it issues nothing but stores the pointer; with both non-null and
\* another matrix it issues one SetTransform of the pointer and caches its
\* matrix.
C15_SetTransformPaths ==
    [][op'.name = "SetTransform" =>
          LET p == op'.args[1]
              active == Top.transform_pointer
          IN  /\ p = active => calls' = <<>> /\ stack' = stack /\ BackendUnchanged
              /\ (p # active /\ p # nullptr /\ active # nullptr /\ mem[p] = Top.transform) =>
                    /\ calls' = <<>>
                    /\ BackendUnchanged
                    /\ Top' = [Top EXCEPT !.transform_pointer = p]
              /\ (p # active /\ p # nullptr /\ active # nullptr /\ mem[p] # Top.transform) =>
                    /\ calls' = <<Call("SetTransform", <<p>>)>>
                    /\ be_transform' = <<mem[p]>>
                    /\ Top' = [Top EXCEPT !.transform_pointer = p, !.transform = mem[p]]]_vars

\* SetTransform replaced a pointer by another one with an equal matrix and
\* issued nothing.
C15_Witness ==
    /\ op.name = "SetTransform" /\ calls = <<>> /\ begun /\ ~tainted
    /\ active_pointer # nullptr
    /\ Top.transform_pointer # nullptr
    /\ Top.transform_pointer # active_pointer
    /\ mem[active_pointer] = Top.transform
    /\ be_transform = <<Top.transform>>

\* The calls of a Pop from the State top to the State next are deltas:
\* scissor calls only if the enabled flags or the enabled rectangles differ,
\* clip mask calls only if the clip lists differ.
PopScissorAndClipDeltas(top, next) ==
    /\ (\E i \in 1..Len(calls') : IsScissorCall(calls'[i])) =>
          \/ ScissorEnabled(top) # ScissorEnabled(next)
          \/ /\ ScissorEnabled(next)
             /\ \/ top.scissor_origin # next.scissor_origin
                \/ top.scissor_dimensions # next.scissor_dimensions
    /\ (\E i \in 1..Len(calls') : calls'[i].name \in {"EnableClipMask", "Geometry"}) =>
          top.clip_stencil_elements # next.clip_stencil_elements

\* C16 (as claimed): Pop at depth 2 or more issues scissor calls only if the
\* scissor of the two States differs, clip mask calls only if their clip lists
\* differ, and a SetTransform call only if their transform pointers differ.
C16_PopForwardsDeltas ==
    [][(op'.name = "Pop" /\ ~error') =>
          LET next == stack[Len(stack) - 1]
          IN  /\ PopScissorAndClipDeltas(Top, next)
              /\ CallsNamed(calls', "SetTransform") # <<>> =>
                    Top.transform_pointer # next.transform_pointer]_vars

\* C16 (amended): as claimed for the scissor and the clip mask; a SetTransform
\* call is issued only if the transform pointers differ or the clip lists
\* differ and the one restored is not empty; a Pop right after a Push issues
\* nothing.
C16_PopForwardsDeltasOrClipTransforms ==
    [][(op'.name = "Pop" /\ ~error') =>
          LET next == stack[Len(stack) - 1]
          IN  /\ PopScissorAndClipDeltas(Top, next)
              /\ CallsNamed(calls', "SetTransform") # <<>> =>
                    \/ Top.transform_pointer # next.transform_pointer
                    \/ /\ Top.clip_stencil_elements # next.clip_stencil_elements
                       /\ next.clip_stencil_elements # <<>>
              /\ op.name = "Push" => calls' = <<>>]_vars

\* A Pop between States with the same scissor that applied another clip list.
C16_Witness ==
    /\ op.name = "Pop" /\ ~error /\ ScissorEnabled(Top)
    /\ LastCall(calls, "Geometry") > 0
    /\ LastCall(calls, "SetTransform") > 0
    /\ \A i \in 1..Len(calls) : ~IsScissorCall(calls[i])

\* C17: after BeginRender, the render interface has the scissor region
\* enabled whenever SetScissorRegion is called: the last EnableScissorRegion
\* call before it, in this operation or an earlier one, had the argument true.
C17_RegionSetWhileEnabled ==
    [][begun =>
          \A i \in 1..Len(calls') :
              calls'[i].name = "SetScissorRegion" =>
                  LET before == CallsNamed(SubSeq(calls', 1, i - 1), "EnableScissorRegion")
                  IN  IF before = <<>> THEN be_scissor
                      ELSE before[Len(before)].args = <<1>>]_vars

\* A Pop that enabled the scissor region and set its rectangle.
C17_Witness ==
    /\ begun /\ op.name = "Pop" /\ ~error
    /\ CallsNamed(calls, "SetScissorRegion") # <<>>
    /\ CallsNamed(calls, "EnableScissorRegion") # <<>>

\* C18: after BeginRender the clip mask is enabled on the render interface
\* exactly when the active State's clip list is not empty, and then the
\* geometries submitted since it was enabled are those of the clip list, in
\* order; SetClipMask of an empty list over a non-empty one issues
\* EnableClipMask(false) and nothing else.
C18_ClipMaskMatchesBackend ==
    /\ [](begun =>
            /\ be_clip <=> Top.clip_stencil_elements # <<>>
            /\ Top.clip_stencil_elements # <<>> =>
                  [i \in 1..Len(be_geoms) |->
                      ElementClip(be_geoms[i].element, be_geoms[i].clip_area)]
                  = Top.clip_stencil_elements)
    /\ [][(/\ op'.name = "SetClipMask"
           /\ op'.args = <<>>
           /\ Top.clip_stencil_elements # <<>>) =>
             calls' = <<Call("EnableClipMask", <<0>>)>>]_vars

\* A Pop that applied the clip list of the State below.
C18_Witness ==
    /\ begun /\ op.name = "Pop" /\ ~error
    /\ Len(Top.clip_stencil_elements) = 2
    /\ Len(CallsNamed(calls, "Geometry")) = 2

\* C19: EnableScissorRegion, DisableScissorRegion, SetClipMask, SetTransform,
\* ApplyTransform, Reset and BeginRender keep the stack depth and every State
\* below the top; GetScissorState changes no State and nothing on the render
\* interface, and issues no call.
C19_MutatorsWriteTopOnly ==
    [][/\ op'.name \in {"EnableScissorRegion", "DisableScissorRegion", "SetClipMask",
                        "SetTransform", "ApplyTransform", "Reset", "BeginRender"} =>
             /\ Len(stack') = Len(stack)
             /\ \A i \in 1..(Len(stack) - 1) : stack'[i] = stack[i]
       /\ op'.name = "GetScissorState" =>
             /\ stack' = stack
             /\ calls' = <<>>
             /\ BackendUnchanged
             /\ UNCHANGED <<supports_stencil, mem>>]_vars

\* A mutator changed the top State at depth 2.
C19_Witness ==
    /\ op.name \in {"EnableScissorRegion", "SetClipMask", "SetTransform"}
    /\ calls # <<>>
    /\ Len(stack) = 2
    /\ stack[1] # stack[2]

\* C20: after BeginRender, while the active State has the scissor enabled, the
\* rectangle the render interface was given last is the active State's
\* scissor_origin and scissor_dimensions, which GetScissorState returns.
C20_RegionMatchesBackend ==
    (begun /\ ScissorEnabled(Top)) =>
        /\ be_region = <<Top.scissor_origin, Top.scissor_dimensions>>
        /\ GetScissorState(Top) = [enabled |-> TRUE, origin |-> be_region[1],
                                   dimensions |-> be_region[2]]

\* A Pop that returned to another rectangle with the scissor enabled throughout.
C20_Witness ==
    /\ begun /\ op.name = "Pop" /\ ~error /\ ScissorEnabled(Top)
    /\ Len(calls) = 1 /\ calls[1].name = "SetScissorRegion"

====
